---- MODULE Spec2Model ----
(***************************************************************************)
(* Model of the Kobo progress-report pipelines luapula_progress.py and     *)
(* western_progress.py: load the target table, fetch every submission by   *)
(* following the server's "next" links, reconcile submissions against the  *)
(* targets (build_progress), write the CSV file and the HTML page.         *)
(*                                                                         *)
(* Strings are sequences of atoms.  An atom is either the whitespace       *)
(* character " " or a maximal run of non-whitespace characters, so that    *)
(* "Limulunga North" is <<"Limulunga", " ", "North">> and " 1" is          *)
(* <<" ", "1">>.  str.strip() removes the leading and trailing whitespace  *)
(* atoms.                                                                  *)
(***************************************************************************)
EXTENDS Integers, Sequences, FiniteSets, TLC

VARIABLES
    variant,      \* which of the two scripts runs: "luapula" or "western"
    env,          \* KOBO_BASE_URL / KOBO_TOKEN / *_ASSET_UID set or empty
    targetFile,   \* the target CSV on disk: exists, header, rows
    server,       \* the remote service: page number -> response
    now,          \* the UTC clock, in seconds
    pc,           \* position of main()
    run,          \* number of the current run of main (1, 2, ...)
    target_df,    \* main's target_df
    url,          \* fetch_all_submissions: page the next request goes to
    out,          \* fetch_all_submissions: records accumulated so far
    reqlog,       \* pages requested by this run, in order
    submissions,  \* main's submissions
    df,           \* main's df, the table build_progress returns
    disk,         \* output directory: file name -> content
    wrote,        \* names of the files this run has written
    prevOut,      \* what the previous run wrote: file name -> content
    exitCode,     \* process exit status, -1 while running
    errmsg        \* the message printed on stderr by the handler

vars == << variant, env, targetFile, server, now, pc, run, target_df, url, out,
           reqlog, submissions, df, disk, wrote, prevOut, exitCode, errmsg >>

(***************************************************************************)
(* Bounds of the model.                                                    *)
(***************************************************************************)
MaxPages == 2      \* pages the server holds
MaxSubs == 2       \* submissions handed to build_progress
MaxTargets == 2    \* rows of the target table
MaxTarget == 2     \* largest target_n
MaxRuns == 2       \* runs of main in a row

Min(a, b) == IF a < b THEN a ELSE b
Max(a, b) == IF a > b THEN a ELSE b

SeqsUpTo(S, n) == UNION { [1..k -> S] : k \in 0..n }

(***************************************************************************)
(* Values.  A cell is None, NaN (what pandas puts where a key or a CSV     *)
(* field is missing), or a string.                                         *)
(***************************************************************************)
None == [k |-> "none", s |-> << >>]
NaN == [k |-> "nan", s |-> << >>]
Absent == [k |-> "absent", s |-> << >>]    \* the key is not in the JSON record
S(s) == [k |-> "str", s |-> s]

IsNa(x) == x.k \in {"none", "nan"}

WS == {" "}

RECURSIVE lstrip(_)
lstrip(s) == IF s = << >> \/ Head(s) \notin WS THEN s ELSE lstrip(Tail(s))

RECURSIVE rstrip(_)
rstrip(s) ==
    IF s = << >> \/ s[Len(s)] \notin WS THEN s ELSE rstrip(SubSeq(s, 1, Len(s) - 1))

strip(s) == rstrip(lstrip(s))

\* str(x) for the values that reach normalize_str: str(float("nan")) is "nan"
str(x) == IF x.k = "nan" THEN << "nan" >> ELSE x.s

normalize_str(x) ==
    IF x.k = "none" THEN None
    ELSE IF strip(str(x)) = << >> THEN None ELSE S(strip(str(x)))

(***************************************************************************)
(* Configuration constants of the two scripts.                             *)
(***************************************************************************)
Variants == {"luapula", "western"}

LuapulaMap ==
    (<<"1">> :> <<"Mabumba">>) @@ (<<"2">> :> <<"Monga">>) @@
    (<<"3">> :> <<"Lukwesa">>) @@ (<<"4">> :> <<"Chibondo">>) @@
    (<<"5">> :> <<"Katuta">>) @@ (<<"6">> :> <<"Kabalange">>) @@
    (<<"7">> :> <<"Lusambo">>) @@ (<<"8">> :> <<"Luena">>) @@
    (<<"9">> :> <<"Kanengo">>)

WesternMap ==
    (<<"1">> :> <<"Lukena">>) @@ (<<"2">> :> <<"Mishulundu">>) @@
    (<<"3">> :> <<"Namatindi">>) @@ (<<"4">> :> <<"Ng'Uma">>) @@
    (<<"5">> :> <<"Sihole">>) @@ (<<"6">> :> <<"Ikabako">>) @@
    (<<"7">> :> <<"Limulunga", " ", "North">>) @@
    (<<"8">> :> <<"Limulunga", " ", "South">>) @@
    (<<"9">> :> <<"Nangili">>) @@
    (<<"10">> :> <<"Ndanda", " ", "East">>) @@
    (<<"11">> :> <<"Ndanda", " ", "West">>) @@
    (<<"12">> :> <<"Simaa">>) @@ (<<"13">> :> <<"Sitoya">>) @@
    (<<"14">> :> <<"Ushaa">>) @@ (<<"15">> :> <<"Kawaya">>) @@
    (<<"16">> :> <<"Kashamba">>) @@ (<<"17">> :> <<"Luanchuma">>) @@
    (<<"18">> :> <<"Lyalala">>) @@ (<<"19">> :> <<"Mbanga">>) @@
    (<<"20">> :> <<"Ngulwana">>) @@ (<<"21">> :> <<"Kakwacha">>) @@
    (<<"22">> :> <<"Lubelele">>) @@ (<<"23">> :> <<"Lutembwe">>) @@
    (<<"24">> :> <<"Muyondoti">>) @@ (<<"25">> :> <<"Mataba">>) @@
    (<<"26">> :> <<"Mitete", " ", "Central">>) @@
    (<<"27">> :> <<"Sitwala">>) @@ (<<"28">> :> <<"Sikunduko">>) @@
    (<<"29">> :> <<"Lupuyi">>) @@ (<<"30">> :> <<"Kama">>) @@
    (<<"31">> :> <<"Litawa">>) @@ (<<"32">> :> <<"Nakanya">>) @@
    (<<"33">> :> <<"Nalwei">>) @@ (<<"34">> :> <<"Namushakende">>) @@
    (<<"35">> :> <<"Namusheshe">>) @@ (<<"36">> :> <<"Sefula">>) @@
    (<<"37">> :> <<"Tapo">>) @@ (<<"38">> :> <<"Liliachi">>) @@
    (<<"39">> :> <<"Litoya">>) @@ (<<"40">> :> <<"Muoyo">>) @@
    (<<"41">> :> <<"Nasilimwe">>)

CAMP_LABEL_MAP(v) == IF v = "luapula" THEN LuapulaMap ELSE WesternMap

OUT_HTML(v) == IF v = "luapula" THEN "luapula.html" ELSE "western.html"

OUT_CSV(v) == IF v = "luapula" THEN "luapula_progress.csv" ELSE "western_progress.csv"

\* the file name in <a href="./...">CSV</a>
CsvHref(v) == IF v = "luapula" THEN "progress.csv" ELSE "western_progress.csv"

PageTitle(v) ==
    IF v = "luapula" THEN "Luapula Survey Progress" ELSE "Western Survey Progress"

FileNames ==
    {"luapula.html", "western.html", "luapula_progress.csv",
     "western_progress.csv", "progress.csv"}

(***************************************************************************)
(* Python's order on str, on atom sequences: whitespace sorts below every  *)
(* other atom, the other atoms in the order of AtomOrder.                  *)
(***************************************************************************)
AtomOrder == << " ", "0", "1", "2", "77", "Lukena", "Mabumba", "Mishulundu", "Monga", "a", "b", "nan" >>

AtomRank(a) == CHOOSE i \in 1..Len(AtomOrder) : AtomOrder[i] = a

RECURSIVE StrLess(_, _)
StrLess(a, b) ==
    IF b = << >> THEN FALSE
    ELSE IF a = << >> THEN TRUE
    ELSE IF Head(a) = Head(b) THEN StrLess(Tail(a), Tail(b))
    ELSE AtomRank(Head(a)) < AtomRank(Head(b))

\* sorted(xs) for a collection of distinct strings
RECURSIVE sorted(_)
sorted(xs) ==
    IF xs = {} THEN << >>
    ELSE LET m == CHOOSE x \in xs : \A y \in xs \ {x} : StrLess(x, y)
         IN  << m >> \o sorted(xs \ {m})

(***************************************************************************)
(* build_progress                                                          *)
(***************************************************************************)
\* pd.json_normalize(submissions) followed by "ensure columns exist": a
\* column no record has is created holding None; in a column some record
\* has, the records without the key hold NaN.
RawColumn(subs, f) ==
    [i \in 1..Len(subs) |->
        IF \A j \in 1..Len(subs) : subs[j][f].k = "absent" THEN None
        ELSE IF subs[i][f].k = "absent" THEN NaN
        ELSE subs[i][f]]

\* raw[col] = raw[col].map(normalize_str)
NormColumn(subs, f) ==
    [i \in 1..Len(subs) |-> normalize_str(RawColumn(subs, f)[i])]

\* int(raw[col].isna().sum()) if len(raw) else 0
MissingRows(col) == Cardinality({i \in DOMAIN col : IsNa(col[i])})

\* raw["camp_label"] = raw[FIELD_CAMP_CODE].map(CAMP_LABEL_MAP)
LabelColumn(v, camp) ==
    [i \in DOMAIN camp |->
        IF ~IsNa(camp[i]) /\ camp[i].s \in DOMAIN CAMP_LABEL_MAP(v)
        THEN S(CAMP_LABEL_MAP(v)[camp[i].s]) ELSE NaN]

\* sorted([c for c in raw[FIELD_CAMP_CODE].dropna().unique() if c not in CAMP_LABEL_MAP])
UnmappedCodes(v, camp) ==
    sorted({camp[i].s : i \in
              {j \in DOMAIN camp : /\ ~IsNa(camp[j])
                                   /\ camp[j].s \notin DOMAIN CAMP_LABEL_MAP(v)}})

\* raw.dropna(subset=["camp_label", FIELD_FARMER_ID]).groupby("camp_label")
\*    [FIELD_FARMER_ID].nunique(): the labels that have a group ...
AggLabels(label, fid) ==
    {label[i].s : i \in {j \in DOMAIN label : ~IsNa(label[j]) /\ ~IsNa(fid[j])}}

\* ... and the number of distinct farmer ids in a label's group
NUnique(label, fid, l) ==
    Cardinality({fid[i].s : i \in
                    {j \in DOMAIN label : label[j] = S(l) /\ ~IsNa(fid[j])}})

\* target_df.merge(agg, on="camp_label", how="left"), collected_n.fillna(0)
CollectedN(label, fid, l) ==
    IF ~IsNa(l) /\ l.s \in AggLabels(label, fid)
    THEN NUnique(label, fid, l.s) ELSE 0

\* (target_n - collected_n).clip(lower=0)
RemainingNoClip(t, c) == t - c

RemainingN(t, c) == Max(0, t - c)

RECURSIVE Gcd(_, _)
Gcd(a, b) == IF b = 0 THEN a ELSE Gcd(b, a % b)

\* a float as the exact value it stands for: a fraction in lowest terms, or inf
Fin(n, d) == [k |-> "fin", num |-> n \div Gcd(n, d), den |-> d \div Gcd(n, d)]
Inf == [k |-> "inf", num |-> 1, den |-> 0]

\* (100 * collected_n / target_n).fillna(0.0): 0/0 is NaN and is filled,
\* c/0 with c > 0 is inf and is not
ProgressPct(t, c) ==
    IF t # 0 THEN Fin(100 * c, t)
    ELSE IF c = 0 THEN Fin(0, 1) ELSE Inf

PctLess(p, q) ==
    IF p.k = "inf" THEN FALSE
    ELSE IF q.k = "inf" THEN TRUE
    ELSE p.num * q.den < q.num * p.den

\* the order of sort_values(["progress_pct", "remaining_n"], ascending=[True, False])
RowBeforeAscRemaining(a, b) ==
    \/ PctLess(a.progress_pct, b.progress_pct)
    \/ a.progress_pct = b.progress_pct /\ a.remaining_n < b.remaining_n

RowBefore(a, b) ==
    \/ PctLess(a.progress_pct, b.progress_pct)
    \/ a.progress_pct = b.progress_pct /\ a.remaining_n > b.remaining_n

\* insert row r into the sorted rows s behind every row it does not precede
RECURSIVE Insert(_, _)
Insert(r, s) ==
    IF s = << >> THEN << r >>
    ELSE IF RowBefore(r, Head(s)) THEN << r >> \o s
    ELSE << Head(s) >> \o Insert(r, Tail(s))

\* sort_values: a stable sort of the rows
RECURSIVE SortValues(_)
SortValues(rows) ==
    IF rows = << >> THEN << >>
    ELSE Insert(rows[Len(rows)], SortValues(SubSeq(rows, 1, Len(rows) - 1)))

\* target_df["camp_label"].map(normalize_str); dropna(subset=["camp_label"])
RECURSIVE NormalizeTargets(_)
NormalizeTargets(rows) ==
    IF rows = << >> THEN << >>
    ELSE LET l == normalize_str(Head(rows).camp_label)
         IN  (IF IsNa(l) THEN << >>
              ELSE << [camp_label |-> l, target_n |-> Head(rows).target_n] >>)
             \o NormalizeTargets(Tail(rows))

build_progress(v, subs, tdf) ==
    LET targets == IF v = "luapula" THEN NormalizeTargets(tdf) ELSE tdf
        camp == NormColumn(subs, "camp")
        fid == NormColumn(subs, "fid")
        label == LabelColumn(v, camp)
        missing_camp_rows == MissingRows(camp)
        missing_farmerid_rows == MissingRows(fid)
        unmapped_codes == UnmappedCodes(v, camp)
        row(i) ==
            LET c == CollectedN(label, fid, targets[i].camp_label)
                t == targets[i].target_n
            IN  [camp_label |-> targets[i].camp_label,
                 target_n |-> t,
                 collected_n |-> c,
                 remaining_n |-> RemainingN(t, c),
                 progress_pct |-> ProgressPct(t, c),
                 missing_camp_rows |-> missing_camp_rows,
                 missing_farmerid_rows |-> missing_farmerid_rows,
                 unmapped_camp_codes |-> unmapped_codes]
    IN  SortValues([i \in 1..Len(targets) |-> row(i)])

(***************************************************************************)
(* Files and rendering                                                     *)
(***************************************************************************)
NoFile == [k |-> "nofile"]

SecondsPerMinute == 60

\* dt.datetime.utcnow().strftime("%Y-%m-%d %H:%M UTC"): the clock cut to the minute
strftime(t) == t \div SecondsPerMinute

\* "{x:.1f}": tenths, rounded (target_n below 16 leaves no tie to break)
Fmt1(p) ==
    IF p.k = "inf" THEN [k |-> "inf", tenths |-> 0]
    ELSE [k |-> "fin", tenths |-> (20 * p.num + p.den) \div (2 * p.den)]

\* max(0.0, min(100.0, pct))
Bar(p) == IF p.k = "inf" \/ p.num > 100 * p.den THEN Fin(100, 1) ELSE p

HtmlRow(r) ==
    [status |-> IF r.remaining_n > 0 THEN "behind" ELSE "done",
     camp |-> r.camp_label,
     target_n |-> r.target_n,
     collected_n |-> r.collected_n,
     remaining_n |-> r.remaining_n,
     bar |-> Fmt1(Bar(r.progress_pct)),
     pct |-> Fmt1(r.progress_pct)]

render_html(v, rows, updated_at) ==
    [k |-> "html",
     title |-> PageTitle(v),
     updated_at |-> updated_at,
     rows |-> [i \in 1..Len(rows) |-> HtmlRow(rows[i])],
     miss_camp |-> IF Len(rows) > 0 THEN rows[1].missing_camp_rows ELSE 0,
     miss_fid |-> IF Len(rows) > 0 THEN rows[1].missing_farmerid_rows ELSE 0,
     unmapped |-> IF Len(rows) > 0 THEN rows[1].unmapped_camp_codes ELSE << >>,
     href |-> CsvHref(v)]

CsvColumns ==
    << "camp_label", "target_n", "collected_n", "remaining_n", "progress_pct",
       "missing_camp_rows", "missing_farmerid_rows", "unmapped_camp_codes" >>

to_csv_stamped(rows) == [k |-> "csv", header |-> CsvColumns, rows |-> rows, at |-> now]

\* df.to_csv(OUT_CSV, index=False)
to_csv(rows) == [k |-> "csv", header |-> CsvColumns, rows |-> rows]

(***************************************************************************)
(* The remote service.  A page is what one GET answers: a status, and for  *)
(* a 200 a payload that is {results, next}, a bare list, or something      *)
(* else; next = 0 stands for null, next = n for the URL of page n.         *)
(***************************************************************************)
TextLimit == 300

\* r.text[:300]
TextCut(text) == SubSeq(text, 1, Min(TextLimit, Len(text)))

StatusOkLenient(r) == r.status < 400

StatusOk(r) == r.status = 200

\* out.extend(payload["results"])
ExtendFront(acc, results) == results \o acc

Extend(acc, results) == acc \o results

\* if nxt: url = nxt; continue
Follow(u, r) == r.next

NoErr == [kind |-> "none", status |-> 0, text |-> << >>]
Err(kind) == [kind |-> kind, status |-> 0, text |-> << >>]
ApiErr(r) == [kind |-> "Kobo API error", status |-> r.status, text |-> TextCut(r.body)]

MaxRequests == MaxPages + 2

(***************************************************************************)
(* main                                                                    *)
(***************************************************************************)
\* an exception reaches the handler at the bottom of the script:
\* print("ERROR:", e, file=sys.stderr); sys.exit(1)
Raise(e) ==
    /\ pc' = "failed"
    /\ exitCode' = 1
    /\ errmsg' = e
    /\ out' = << >>
    /\ url' = 0

\* os.makedirs(OUT_DIR); then the target table: luapula reads it in main,
\* western in load_targets, which also accepts the alias column names
LoadTargets ==
    /\ pc = "start"
    /\ IF ~targetFile.exists
       THEN /\ Raise(Err("FileNotFoundError"))
            /\ UNCHANGED target_df
       ELSE IF \/ targetFile.header = "bad"
               \/ variant = "luapula" /\ targetFile.header # "std"
       THEN /\ Raise(Err("ValueError"))
            /\ UNCHANGED target_df
       ELSE /\ target_df' = IF variant = "western"
                            THEN NormalizeTargets(targetFile.rows)
                            ELSE targetFile.rows
            /\ pc' = "fetch"
            /\ UNCHANGED << exitCode, errmsg, out, url >>
    /\ UNCHANGED << variant, env, targetFile, server, now, run, reqlog,
                    submissions, df, disk, wrote, prevOut >>

\* fetch_all_submissions, up to the loop
FetchStart ==
    /\ pc = "fetch"
    /\ IF ~env.base THEN Raise(Err("KOBO_BASE_URL is empty"))
       ELSE IF ~env.uid THEN Raise(Err("ASSET_UID is empty"))
       ELSE /\ pc' = "request"
            /\ url' = 1
            /\ out' = << >>
            /\ UNCHANGED << exitCode, errmsg >>
    /\ UNCHANGED << variant, env, targetFile, server, now, run, target_df,
                    reqlog, submissions, df, disk, wrote, prevOut >>

\* one turn of the while loop: headers(), requests.get, and what follows;
\* log is the request log after the turn
Turn(log) ==
    /\ pc = "request"
    /\ IF ~env.token
       THEN /\ Raise(Err("KOBO_TOKEN is empty"))
            /\ UNCHANGED << reqlog, submissions >>
       ELSE LET r == server[url] IN
            /\ reqlog' = log
            /\ IF ~StatusOk(r)
               THEN Raise(ApiErr(r)) /\ UNCHANGED submissions
               ELSE IF r.kind = "dict"
               THEN IF Follow(url, r) # 0
                    THEN /\ out' = Extend(out, r.results)
                         /\ url' = Follow(url, r)
                         /\ UNCHANGED << pc, exitCode, errmsg, submissions >>
                    ELSE /\ submissions' = Extend(out, r.results)
                         /\ out' = << >>
                         /\ url' = 0
                         /\ pc' = "build"
                         /\ UNCHANGED << exitCode, errmsg >>
               ELSE IF r.kind = "list"
               THEN /\ submissions' = Extend(out, r.results)
                    /\ out' = << >>
                    /\ url' = 0
                    /\ pc' = "build"
                    /\ UNCHANGED << exitCode, errmsg >>
               ELSE Raise(Err("Unexpected Kobo response format")) /\ UNCHANGED submissions
    /\ UNCHANGED << variant, env, targetFile, server, now, run, target_df, df,
                    disk, wrote, prevOut >>

\* a turn of the loop, in the runs of at most MaxRequests requests
Request ==
    /\ Len(reqlog) < MaxRequests
    /\ Turn(Append(reqlog, url))

\* a turn of the loop as the code takes it: "while True" sets no limit on
\* the turns; the log keeps the first MaxRequests requests only
Loop == Turn(IF Len(reqlog) < MaxRequests THEN Append(reqlog, url) ELSE reqlog)

\* df = build_progress(submissions, target_df)
BuildProgress ==
    /\ pc = "build"
    /\ df' = build_progress(variant, submissions, target_df)
    /\ pc' = "csv"
    /\ UNCHANGED << variant, env, targetFile, server, now, run, target_df, url,
                    out, reqlog, submissions, disk, wrote, prevOut, exitCode,
                    errmsg >>

\* df.to_csv(OUT_CSV, index=False); the write succeeds or raises OSError
WriteCsv ==
    /\ pc = "csv"
    /\ \E ok \in BOOLEAN :
          IF ok
          THEN /\ disk' = [disk EXCEPT ![OUT_CSV(variant)] = to_csv(df)]
               /\ wrote' = wrote \cup {OUT_CSV(variant)}
               /\ pc' = "html"
               /\ UNCHANGED << exitCode, errmsg, out, url >>
          ELSE /\ Raise(Err("OSError"))
               /\ UNCHANGED << disk, wrote >>
    /\ UNCHANGED << variant, env, targetFile, server, now, run, target_df,
                    reqlog, submissions, df, prevOut >>

\* updated_at = utcnow().strftime(...); render_html; open(OUT_HTML, "w").write;
\* the write succeeds or raises OSError
WriteHtml ==
    /\ pc = "html"
    /\ \E ok \in BOOLEAN :
          IF ok
          THEN /\ disk' = [disk EXCEPT ![OUT_HTML(variant)] =
                                render_html(variant, df, strftime(now))]
               /\ wrote' = wrote \cup {OUT_HTML(variant)}
               /\ pc' = "done"
               /\ exitCode' = 0
               /\ UNCHANGED << errmsg, out, url >>
          ELSE /\ Raise(Err("OSError"))
               /\ UNCHANGED << disk, wrote >>
    /\ UNCHANGED << variant, env, targetFile, server, now, run, target_df,
                    reqlog, submissions, df, prevOut >>

\* the script is run again, later, against the same remote records and the
\* same target file; the output directory keeps what the earlier runs wrote
Rerun ==
    /\ pc \in {"done", "failed"}
    /\ run < MaxRuns
    /\ run' = run + 1
    /\ \E d \in {0, 1} : now' = now + d
    /\ prevOut' = [f \in FileNames |-> IF f \in wrote THEN disk[f] ELSE NoFile]
    /\ pc' = "start"
    /\ target_df' = << >>
    /\ url' = 0
    /\ out' = << >>
    /\ reqlog' = << >>
    /\ submissions' = << >>
    /\ df' = << >>
    /\ wrote' = {}
    /\ exitCode' = -1
    /\ errmsg' = NoErr
    /\ UNCHANGED << variant, env, targetFile, server, disk >>

Next ==
    \/ LoadTargets
    \/ FetchStart
    \/ Request
    \/ BuildProgress
    \/ WriteCsv
    \/ WriteHtml
    \/ Rerun

(***************************************************************************)
(* Inputs                                                                  *)
(***************************************************************************)
Rec(c, f) == [camp |-> c, fid |-> f]

RecA == Rec(S(<< "1" >>), S(<< "a" >>))
RecB == Rec(S(<< "2" >>), S(<< "b" >>))

\* what a page of the service may carry
PageResults == { << >>, << RecA >>, << RecB >>, << RecB, RecA >> }

\* response bodies of n characters
Body(n) == [i \in 1..n |-> i % 10]

ErrorPages ==
    { [status |-> 500, kind |-> "other", results |-> << >>, next |-> 0, body |-> Body(3)],
      [status |-> 202, kind |-> "other", results |-> << >>, next |-> 0,
       body |-> Body(TextLimit + 1)] }

OkPage(kind, results, next) ==
    [status |-> 200, kind |-> kind, results |-> results, next |-> next, body |-> << >>]

\* the pages of a service of n pages: next is null or any of its pages
Pages(n, results) ==
    { OkPage("dict", rs, nx) : rs \in results, nx \in 0..n }
        \cup { OkPage("list", rs, 0) : rs \in results }
        \cup { OkPage("other", << >>, 0) }
        \cup ErrorPages

Servers(results) == UNION { [1..n -> Pages(n, results)] : n \in 1..MaxPages }

\* page i links to page i + 1, the last page to nothing
IsChain(s) ==
    \A i \in 1..Len(s) :
        /\ s[i].status = 200
        /\ s[i].kind = "dict"
        /\ s[i].next = IF i < Len(s) THEN i + 1 ELSE 0

\* as IsChain, but a page may also be an error, a bare list or malformed
IsLinear(s) ==
    \A i \in 1..Len(s) :
        s[i].status = 200 /\ s[i].kind = "dict" =>
            s[i].next = IF i < Len(s) THEN i + 1 ELSE 0

EnvOk == [base |-> TRUE, uid |-> TRUE, token |-> TRUE]

Envs == [base : BOOLEAN, uid : BOOLEAN, token : BOOLEAN]

Label(v, code) == CAMP_LABEL_MAP(v)[<< code >>]

TRow(l, n) == [camp_label |-> l, target_n |-> n]

DefaultRows(v) ==
    << TRow(S(Label(v, "1")), 2), TRow(S(<< " " >> \o Label(v, "2")), 0) >>

GoodFile(rows) == [exists |-> TRUE, header |-> "std", rows |-> rows]

TargetFiles(v) ==
    { [exists |-> e, header |-> h, rows |-> DefaultRows(v)] :
        e \in BOOLEAN, h \in {"std", "alias", "bad"} }

DefaultServer == << OkPage("list", << RecB, RecA >>, 0) >>

InitRun ==
    /\ pc = "start"
    /\ run = 1
    /\ target_df = << >>
    /\ url = 0
    /\ out = << >>
    /\ reqlog = << >>
    /\ submissions = << >>
    /\ df = << >>
    /\ disk = [f \in FileNames |-> NoFile]
    /\ wrote = {}
    /\ prevOut = [f \in FileNames |-> NoFile]
    /\ exitCode = -1
    /\ errmsg = NoErr

\* the whole script, run up to MaxRuns times
Init ==
    /\ variant \in Variants
    /\ now = SecondsPerMinute - 1
    /\ \/ /\ env = EnvOk
          /\ targetFile = GoodFile(DefaultRows(variant))
          /\ server \in { s \in Servers({ << RecA >>, << RecB >> }) : IsLinear(s) }
       \/ /\ env \in Envs
          /\ targetFile = GoodFile(DefaultRows(variant))
          /\ server = DefaultServer
       \/ /\ env = EnvOk
          /\ targetFile \in TargetFiles(variant)
          /\ server = DefaultServer
    /\ InitRun

Spec == Init /\ [][Next]_vars

\* fetch_all_submissions alone, against every service
InitFetch ==
    /\ variant \in Variants
    /\ now = 0
    /\ env \in Envs
    /\ targetFile = GoodFile(DefaultRows(variant))
    /\ server \in Servers(PageResults)
    /\ env # EnvOk => server = DefaultServer
    /\ pc = "fetch"
    /\ run = 1
    /\ target_df = IF variant = "western" THEN NormalizeTargets(DefaultRows(variant))
                   ELSE DefaultRows(variant)
    /\ url = 0
    /\ out = << >>
    /\ reqlog = << >>
    /\ submissions = << >>
    /\ df = << >>
    /\ disk = [f \in FileNames |-> NoFile]
    /\ wrote = {}
    /\ prevOut = [f \in FileNames |-> NoFile]
    /\ exitCode = -1
    /\ errmsg = NoErr

NextFetch == FetchStart \/ Request

SpecFetch == InitFetch /\ [][NextFetch]_vars

\* fetch_all_submissions alone and with no limit on the turns of its loop,
\* against the services whose pages carry no record (the accumulated list
\* stays empty however long the loop runs) and no page links to itself (a
\* turn then always moves url, so that looping is told from stopping).  The
\* loop is the only thing the process does and every request is answered,
\* so a turn that can be taken is taken.
InitFetchLive ==
    /\ variant \in Variants
    /\ now = 0
    /\ env \in Envs
    /\ targetFile = GoodFile(DefaultRows(variant))
    /\ server \in { s \in Servers({ << >> }) : \A i \in DOMAIN s : s[i].next # i }
    /\ pc = "fetch"
    /\ run = 1
    /\ target_df = IF variant = "western" THEN NormalizeTargets(DefaultRows(variant))
                   ELSE DefaultRows(variant)
    /\ url = 0
    /\ out = << >>
    /\ reqlog = << >>
    /\ submissions = << >>
    /\ df = << >>
    /\ disk = [f \in FileNames |-> NoFile]
    /\ wrote = {}
    /\ prevOut = [f \in FileNames |-> NoFile]
    /\ exitCode = -1
    /\ errmsg = NoErr

NextFetchLive == FetchStart \/ Loop

SpecFetchLive == InitFetchLive /\ [][NextFetchLive]_vars /\ WF_vars(NextFetchLive)

\* build_progress alone, on every submission list and target table
BuildRecs ==
    { Rec(S(<< "1" >>), S(<< "a" >>)),
      Rec(S(<< " ", "1" >>), S(<< "a", " " >>)),
      Rec(S(<< "1" >>), S(<< "b" >>)),
      Rec(S(<< "2" >>), S(<< "a" >>)),
      Rec(S(<< "77" >>), S(<< "b" >>)),
      Rec(S(<< "1" >>), Absent),
      Rec(Absent, S(<< >>)),
      Rec(S(<< " " >>), None) }

BuildRows(v) ==
    { TRow(S(Label(v, "1")), n) : n \in 0..MaxTarget }
        \cup { TRow(S(<< " " >> \o Label(v, "2")), 1), TRow(S(<< " " >>), 1) }

InitBuild ==
    /\ variant \in Variants
    /\ now = 0
    /\ env = EnvOk
    /\ submissions \in SeqsUpTo(BuildRecs, MaxSubs)
    /\ \E rows \in SeqsUpTo(BuildRows(variant), MaxTargets) :
          /\ targetFile = GoodFile(rows)
          /\ target_df = IF variant = "western" THEN NormalizeTargets(rows) ELSE rows
    /\ server = << OkPage("list", submissions, 0) >>
    /\ pc = "build"
    /\ run = 1
    /\ url = 0
    /\ out = << >>
    /\ reqlog = << 1 >>
    /\ df = << >>
    /\ disk = [f \in FileNames |-> NoFile]
    /\ wrote = {}
    /\ prevOut = [f \in FileNames |-> NoFile]
    /\ exitCode = -1
    /\ errmsg = NoErr

NextBuild == BuildProgress

SpecBuild == InitBuild /\ [][NextBuild]_vars

(***************************************************************************)
(* What the specification says, read off the inputs                        *)
(***************************************************************************)
\* an identifier or code is present when it is a string that is not blank
Present(x) == x.k = "str" /\ strip(x.s) # << >>

\* the submissions whose trimmed location code maps to the label l
AtLocation(l) ==
    {i \in DOMAIN submissions :
        /\ Present(submissions[i].camp)
        /\ strip(submissions[i].camp.s) \in DOMAIN CAMP_LABEL_MAP(variant)
        /\ CAMP_LABEL_MAP(variant)[strip(submissions[i].camp.s)] = l}

\* the distinct respondent identifiers among them
Respondents(l) ==
    {strip(submissions[i].fid.s) : i \in {j \in AtLocation(l) : Present(submissions[j].fid)}}

\* the location codes on submissions that CAMP_LABEL_MAP does not know
UnknownCodes ==
    {strip(submissions[i].camp.s) : i \in
        {j \in DOMAIN submissions :
            /\ Present(submissions[j].camp)
            /\ strip(submissions[j].camp.s) \notin DOMAIN CAMP_LABEL_MAP(variant)}}

Built == pc = "csv"

Rows == DOMAIN df

\* the exact value of a progress_pct equals n / d
PctIs(p, n, d) == p.k = "fin" /\ p.num * d = n * p.den

\* C1: every row's collected_n is the number of distinct present respondent
\* identifiers among the submissions at the row's location, 0 when there are none
C1_DistinctRespondents ==
    Built => \A i \in Rows : df[i].collected_n = Cardinality(Respondents(df[i].camp_label.s))

\* C2: progress_pct is 0 when target_n is 0, whatever collected_n is, and
\* 100 * collected_n / target_n otherwise
C2_ProgressPct ==
    Built => \A i \in Rows :
        IF df[i].target_n = 0 THEN PctIs(df[i].progress_pct, 0, 1)
        ELSE PctIs(df[i].progress_pct, 100 * df[i].collected_n, df[i].target_n)

Ended == pc \in {"done", "failed"}

\* C3: a run ends with both files written and exit code 0, or with
\* neither written and a non-zero exit code
C3_NoPartialOutput ==
    Ended => \/ exitCode = 0 /\ wrote = {OUT_CSV(variant), OUT_HTML(variant)}
             \/ exitCode # 0 /\ wrote = {}

RECURSIVE ConcatPages(_, _)
ConcatPages(s, n) == IF n = 0 THEN << >> ELSE ConcatPages(s, n - 1) \o s[n].results

BareList(s) == s[1].status = 200 /\ s[1].kind = "list"

\* C4: against a chain of {results, next} pages the fetch asks for page 1,
\* 2, ... once each and returns the pages' results concatenated in page
\* order; a bare list is returned as it is after the one request
C4_Pagination ==
    /\ env = EnvOk /\ IsChain(server) =>
          /\ pc # "failed"
          /\ reqlog = [i \in 1..Len(reqlog) |-> i]
          /\ pc = "request" => out = ConcatPages(server, Len(reqlog))
          /\ pc = "build" => /\ Len(reqlog) = Len(server)
                             /\ submissions = ConcatPages(server, Len(server))
    /\ env = EnvOk /\ BareList(server) =>
          /\ pc # "failed"
          /\ pc = "build" => reqlog = << 1 >> /\ submissions = server[1].results

C4_TwoPagesFetched ==
    /\ IsChain(server)
    /\ Len(server) = 2
    /\ pc = "build"
    /\ server[1].results = << RecB, RecA >>
    /\ server[2].results = << RecA >>
    /\ submissions = << RecB, RecA, RecA >>

\* C5: once a request is answered with a status other than 200 the run has
\* failed: that request is the last one, nothing fetched is handed on, no
\* file is written, the exit code is 1 and the message carries the status
\* and the first 300 characters of the body
C5_FailFast ==
    reqlog # << >> =>
        /\ \A i \in 1..(Len(reqlog) - 1) : server[reqlog[i]].status = 200
        /\ LET r == server[reqlog[Len(reqlog)]] IN
           r.status # 200 =>
              /\ pc = "failed"
              /\ exitCode = 1
              /\ errmsg.kind = "Kobo API error"
              /\ errmsg.status = r.status
              /\ Len(errmsg.text) <= 300
              /\ errmsg.text = [i \in 1..Len(errmsg.text) |-> r.body[i]]
              /\ Len(errmsg.text) < 300 => errmsg.text = r.body
              /\ submissions = << >>
              /\ df = << >>
              /\ out = << >>
              /\ wrote = {}

C5_LaterPageFails ==
    /\ pc = "failed"
    /\ Len(reqlog) = 2
    /\ server[1].results # << >>
    /\ errmsg.status = 202
    /\ Len(errmsg.text) = 300
    /\ Len(server[2].body) > 300

\* targets CampA 10, CampB 15, CampC 8 with 3, 15 and 4 collected, sorted
ExampleRow(l, t, c) ==
    [camp_label |-> l, target_n |-> t, collected_n |-> c,
     remaining_n |-> RemainingN(t, c), progress_pct |-> ProgressPct(t, c)]

ExampleSorted ==
    SortValues(<< ExampleRow("CampA", 10, 3), ExampleRow("CampB", 15, 15),
                  ExampleRow("CampC", 8, 4) >>)

\* C6: a row with a lower progress_pct comes before a row with a higher
\* one, and among rows of equal progress_pct the higher remaining_n comes first
C6_Sorted ==
    /\ Built => \A i, j \in Rows : i < j =>
          /\ ~PctLess(df[j].progress_pct, df[i].progress_pct)
          /\ df[i].progress_pct = df[j].progress_pct =>
                df[i].remaining_n >= df[j].remaining_n
    /\ [i \in 1..3 |-> ExampleSorted[i].camp_label] = << "CampA", "CampC", "CampB" >>

C6_TieReordered ==
    /\ Built
    /\ Len(df) = 2
    /\ Len(target_df) = 2
    /\ df[1].progress_pct = df[2].progress_pct
    /\ df[1].remaining_n > df[2].remaining_n
    /\ df[1].camp_label = normalize_str(target_df[2].camp_label)
    /\ df[2].camp_label = normalize_str(target_df[1].camp_label)

\* C7: remaining_n is target_n - collected_n where that is positive and 0
\* where it is not, so it is never negative
C7_Remaining ==
    Built => \A i \in Rows :
        /\ df[i].remaining_n >= 0
        /\ df[i].remaining_n = IF df[i].target_n > df[i].collected_n
                               THEN df[i].target_n - df[i].collected_n ELSE 0

C7_CollectedAboveTarget ==
    /\ Built
    /\ \E i \in Rows : df[i].collected_n > df[i].target_n /\ df[i].remaining_n = 0

\* a second run has ended well after a first run that wrote both files
RanTwice ==
    /\ run >= 2
    /\ pc = "done"
    /\ prevOut[OUT_CSV(variant)] # NoFile
    /\ prevOut[OUT_HTML(variant)] # NoFile

\* C8 as stated: the second run's CSV and HTML equal the first run's
C8_SameFiles ==
    RanTwice => /\ disk[OUT_CSV(variant)] = prevOut[OUT_CSV(variant)]
                /\ disk[OUT_HTML(variant)] = prevOut[OUT_HTML(variant)]

\* C8 amended: the second run's CSV equals the first run's, and its HTML
\* equals the first run's but for the "Last updated" minute, which is the
\* minute of the run that wrote it
C8_SameButTimestamp ==
    RanTwice =>
        /\ disk[OUT_CSV(variant)] = prevOut[OUT_CSV(variant)]
        /\ [disk[OUT_HTML(variant)] EXCEPT !.updated_at = 0]
              = [prevOut[OUT_HTML(variant)] EXCEPT !.updated_at = 0]
        /\ disk[OUT_HTML(variant)].updated_at = strftime(now)

C8_MinuteChanged ==
    /\ RanTwice
    /\ disk[OUT_HTML(variant)].updated_at # prevOut[OUT_HTML(variant)].updated_at
    /\ Len(disk[OUT_HTML(variant)].rows) > 0

RECURSIVE Count(_, _)
Count(s, x) ==
    IF s = << >> THEN 0 ELSE (IF Head(s) = x THEN 1 ELSE 0) + Count(Tail(s), x)

\* C9: the unmapped-codes diagnostic lists each location code that is
\* present on a submission and unknown to CAMP_LABEL_MAP once, and nothing
\* else; submissions with such a code count for no location
C9_UnmappedCodes ==
    Built /\ Len(df) > 0 =>
        /\ \A c \in UnknownCodes : Count(df[1].unmapped_camp_codes, c) = 1
        /\ \A k \in DOMAIN df[1].unmapped_camp_codes :
              df[1].unmapped_camp_codes[k] \in UnknownCodes
        /\ \A i \in Rows : df[i].collected_n <= Cardinality(AtLocation(df[i].camp_label.s))

\* C10: the CSV link of the HTML page a run wrote names the CSV file the
\* run wrote
C10_LinkNamesCsv ==
    pc = "done" => /\ disk[OUT_HTML(variant)].href = OUT_CSV(variant)
                   /\ disk[OUT_HTML(variant)].href \in wrote

\* fetch_all_submissions has returned its list or raised
Returned == pc \in {"build", "failed"}

\* C11: fetch_all_submissions eventually returns or raises, whatever the
\* service answers
C11_Terminates == <>Returned

====
